---- MODULE Spec2Model ----
(***************************************************************************)
(* Model of examples/mavlink_direct/sensor_rate_monitor.cpp: the           *)
(* subscription callback that counts monitored MAVLink messages and the    *)
(* render loop that prints the rate table once per second, both guarded by *)
(* stats_mutex.                                                            *)
(*                                                                         *)
(* Time is std::chrono::steady_clock, modelled with a resolution of one    *)
(* microsecond; duration_cast to milliseconds and to seconds truncate.     *)
(* message_counts holds unsigned values; the model keeps the number of     *)
(* deliveries far below the 2^32 wrap-around.                              *)
(***************************************************************************)
EXTENDS Integers, Sequences, FiniteSets, TLC

VARIABLES
    clock,              \* steady_clock::now(), in microseconds
    start_time,         \* line 86
    stats_mutex,        \* the set of contexts holding stats_mutex (line 85)
    message_counts,     \* std::map<std::string, unsigned> (line 83)
    last_message_time,  \* std::map<std::string, time_point> (line 84)
    cb,                 \* per delivery context: position in the callback
    rl,                 \* the render loop: position and locals
    rows,               \* table rows written by the tick in progress
    warning,            \* whether the tick in progress wrote the warning
    calls,              \* history: callback invocations per delivery context
    delivered,          \* history: callback invocations per monitored name
    latest_received,    \* history: instant of the latest invocation per
                        \* monitored name
    main_pc,            \* position of main outside the render loop
    argc,               \* line 29
    connection_result,  \* line 40
    systems,            \* mavsdk.systems().size()
    system,             \* line 61: the selected system, 0 while null
    subscribed,         \* whether the handle of line 97 is registered
    exit_code,          \* the status main returned: {} while it runs
    start_wait,         \* line 48
    console             \* the messages main has printed outside the table

\* The state of main outside the monitoring phase.
life == <<main_pc, argc, connection_result, systems, system, subscribed,
          exit_code, start_wait, console>>

vars == <<clock, start_time, stats_mutex, message_counts, last_message_time,
          cb, rl, rows, warning, calls, delivered, latest_received, life>>

---------------------------------------------------------------------------
(* Bounds *)

\* The delivery contexts that may run the callback concurrently.
NumProducers == 2
\* The callback invocations of a session, over all delivery contexts.
MaxEvents == 3
\* How many of the instants of InstantAt the clock may take.
NumInstants == 3
\* Under SpecTick: the largest age, in milliseconds, of an entry at the tick.
MaxDeltaMs == 2100

Producers == 1..NumProducers

\* The instants (microseconds) at which steps of the program are observed:
\* the start, the earliest first and second tick, then instants in between.
InstantAt == <<0, 1000000, 2000000, 500, 1000500, 3000000>>
Instants == {InstantAt[k] : k \in 1..NumInstants}

\* The message names the bus delivers: two monitored ones and one that
\* differs from a monitored one by case only.
EventNames == {"HEARTBEAT", "OPTICAL_FLOW_RAD", "heartbeat"}

---------------------------------------------------------------------------
(* Program constants and pure helpers *)

\* The context id of the main thread, which runs the render loop.
Renderer == 0

\* Variant of monitored_messages: the names in the order of the keys of a
\* std::map.
monitored_messages_sorted ==
    <<"DISTANCE_SENSOR", "HEARTBEAT", "OPTICAL_FLOW", "OPTICAL_FLOW_RAD">>

monitored_messages ==
    <<"OPTICAL_FLOW", "OPTICAL_FLOW_RAD", "DISTANCE_SENSOR", "HEARTBEAT">>

Monitored == {monitored_messages[k] : k \in 1..Len(monitored_messages)}

\* Upper-case form of the names the bus delivers.
ToUpper(name) == IF name = "heartbeat" THEN "HEARTBEAT" ELSE name

\* Variant of is_monitored: the comparison ignores case.
is_monitored_nocase(message_name) ==
    \E k \in 1..Len(monitored_messages) :
        ToUpper(message_name) = monitored_messages[k]

\* Lines 102-108: linear search with exact string comparison.
is_monitored(message_name) ==
    \E k \in 1..Len(monitored_messages) : message_name = monitored_messages[k]

\* std::map::operator[] used as an rvalue: value-initialises a missing key.
MapIndex(m, key, dflt) ==
    IF key \in DOMAIN m THEN m
    ELSE [k \in DOMAIN m \cup {key} |-> IF k = key THEN dflt ELSE m[k]]

\* m[key] = value
MapAssign(m, key, value) ==
    [k \in DOMAIN m \cup {key} |-> IF k = key THEN value ELSE m[k]]

Digit(d) ==
    CASE d = 0 -> "0" [] d = 1 -> "1" [] d = 2 -> "2" [] d = 3 -> "3"
      [] d = 4 -> "4" [] d = 5 -> "5" [] d = 6 -> "6" [] d = 7 -> "7"
      [] d = 8 -> "8" [] d = 9 -> "9"

RECURSIVE to_string(_)
\* std::to_string of an integer: decimal digits, '-' for a negative value.
to_string(n) ==
    IF n < 0 THEN "-" \o to_string(-n)
    ELSE IF n < 10 THEN Digit(n)
    ELSE to_string(n \div 10) \o Digit(n % 10)

\* Integer division truncating toward zero, as C++ divides.
TruncDiv(a, b) ==
    IF a >= 0 THEN a \div b ELSE -((-a) \div b)

\* duration_cast<std::chrono::seconds>(d).count()
duration_cast_seconds(d) == TruncDiv(d, 1000000)

\* duration_cast<std::chrono::milliseconds>(d).count()
duration_cast_milliseconds(d) == TruncDiv(d, 1000)

\* Variant of FormatSince: the test is time_since_last <= 1000.
FormatSinceInclusive(time_since_last) ==
    IF time_since_last <= 1000
    THEN to_string(time_since_last) \o " ms ago"
    ELSE to_string(TruncDiv(time_since_last, 1000)) \o " s ago"

\* Lines 148-152: the text of the "Last Seen" cell of a name that was found.
FormatSince(time_since_last) ==
    IF time_since_last < 1000
    THEN to_string(time_since_last) \o " ms ago"
    ELSE to_string(TruncDiv(time_since_last, 1000)) \o " s ago"

\* Lines 143-153.
LastSeenCell(times, msg_name, current_time) ==
    IF msg_name \in DOMAIN times
    THEN FormatSince(duration_cast_milliseconds(current_time - times[msg_name]))
    ELSE "Never"

\* 2^s modulo m.
RECURSIVE Pow2Mod(_, _)
Pow2Mod(s, m) == IF s = 0 THEN 1 % m ELSE (2 * Pow2Mod(s - 1, m)) % m

\* The number of halvings of a that leave it at least b (a >= b > 0).
RECURSIVE HalvingsDownTo(_, _)
HalvingsDownTo(a, b) ==
    IF a \div 2 >= b THEN 1 + HalvingsDownTo(a \div 2, b) ELSE 0

\* The number of doublings of a that bring it to b or more (0 < a, 0 < b).
RECURSIVE DoublingsUpTo(_, _)
DoublingsUpTo(a, b) == IF a >= b THEN 0 ELSE 1 + DoublingsUpTo(2 * a, b)

\* The binary exponent of the quotient count / elapsed: the E with
\* 2^E <= count / elapsed < 2^(E+1), for count > 0 and elapsed > 0.
BinaryExponent(count, elapsed) ==
    IF count >= elapsed THEN HalvingsDownTo(count, elapsed)
    ELSE -DoublingsUpTo(count, elapsed)

\* Line 140, static_cast<double>(count) / elapsed: the sign of the error of
\* the double quotient (53-bit significand, round to nearest, ties to even)
\* against the exact quotient: 1 above, -1 below, 0 exact.  The arithmetic
\* is modulo 2 * elapsed, which must stay below 2^15.5.
DoubleQuotientError(count, elapsed) ==
    LET s == 52 - BinaryExponent(count, elapsed)
        scaled == ((count % (2 * elapsed)) * Pow2Mod(s, 2 * elapsed))
                      % (2 * elapsed)
        rem == scaled % elapsed
        odd == scaled \div elapsed
    IN  IF rem = 0 THEN 0
        ELSE IF 2 * rem > elapsed \/ (2 * rem = elapsed /\ odd = 1) THEN 1
        ELSE -1

\* Line 140 and lines 157-158: the double count / elapsed printed with
\* std::fixed and setprecision(2), as a number of hundredths.  The stream
\* rounds the value of the double to the nearest hundredth; where the exact
\* quotient lies half-way between two hundredths, the double decides: it
\* is above or below the half-way point, or (elapsed a multiple of 8 and
\* the quotient a multiple of 1/8) it holds it exactly and the conversion
\* goes to the even hundredth.
\* Variant of RateHundredths: the quotient cut after two decimals.
RateHundredthsTruncated(count, elapsed) ==
    IF elapsed > 0 THEN (count * 100) \div elapsed ELSE 0

RateHundredths(count, elapsed) ==
    IF elapsed > 0
    THEN LET q == (count * 100) \div elapsed
             r == (count * 100) % elapsed
             up == IF 2 * r # elapsed THEN 2 * r > elapsed
                   ELSE LET err == DoubleQuotientError(count, elapsed)
                        IN  err > 0 \/ (err = 0 /\ q % 2 = 1)
         IN  IF up THEN q + 1 ELSE q
    ELSE 0

RateCell(count, elapsed) ==
    LET h == RateHundredths(count, elapsed)
    IN  to_string(h \div 100) \o "." \o Digit((h % 100) \div 10) \o Digit(h % 10)

---------------------------------------------------------------------------
(* Initial state: line 116 has run; the subscription is registered and the *)
(* main thread enters the loop of line 118.                                *)

\* main has connected, found a system at its first poll, registered the
\* callback and printed line 116, all at the instant of line 48.
LifeAtMonitoring ==
    /\ main_pc = "monitoring"
    /\ argc = 2
    /\ connection_result = "Success"
    /\ systems = 1
    /\ system = 1
    /\ subscribed = TRUE
    /\ exit_code = {}
    /\ start_wait = InstantAt[1]
    /\ console = {"waiting", "connected", "monitoring"}

Init ==
    /\ LifeAtMonitoring
    /\ clock = InstantAt[1]
    /\ start_time = InstantAt[1]
    /\ stats_mutex = {}
    /\ message_counts = <<>>
    /\ last_message_time = <<>>
    /\ cb = [p \in Producers |-> [pc |-> "idle", name |-> "", old |-> 0]]
    /\ rl = [pc |-> "sleep", wake |-> InstantAt[1] + 1000000, i |-> 1,
             current_time |-> 0, elapsed |-> 0, count |-> 0]
    /\ rows = <<>>
    /\ warning = FALSE
    /\ calls = [p \in Producers |-> 0]
    /\ delivered = [n \in EventNames \cap Monitored |-> 0]
    /\ latest_received = [n \in EventNames \cap Monitored |-> -1]

---------------------------------------------------------------------------
(* std::lock_guard<std::mutex> on stats_mutex *)

\* Variant of lock_guard: a guard that never blocks.
lock_guard_nonblocking(ctx) ==
    stats_mutex' = stats_mutex \cup {ctx}

\* Construction of the lock_guard (lines 99 and 121): blocks until the mutex
\* is free, then owns it.
lock_guard(ctx) ==
    /\ stats_mutex = {}
    /\ stats_mutex' = {ctx}

\* Destruction of the lock_guard at the end of its scope (lines 114 and 171).
unlock_guard(ctx) ==
    stats_mutex' = stats_mutex \ {ctx}

---------------------------------------------------------------------------
(* The subscription callback, lines 98-114, run by delivery context p *)

\* Variant of StoreCount: message_counts[message.message_name] = 1.
StoreCountAssignOne(counts, message_name, old) ==
    MapAssign(counts, message_name, 1)

\* Line 111, message_counts[message.message_name]++, is a read of the
\* element (operator[] creates it when missing) followed by the store of the
\* incremented value.
StoreCount(counts, message_name, old) ==
    MapAssign(counts, message_name, old + 1)

\* Variant of StampTime: last_message_time.emplace(name, now), which leaves
\* an existing element as it is.
StampTimeEmplace(times, message_name, now) ==
    MapIndex(times, message_name, now)

\* Line 112: last_message_time[message.message_name] = steady_clock::now()
StampTime(times, message_name, now) ==
    MapAssign(times, message_name, now)

RECURSIVE TotalCalls(_)
\* The callback invocations made so far by delivery contexts 1..k.
TotalCalls(k) == IF k = 0 THEN 0 ELSE calls[k] + TotalCalls(k - 1)

\* The bus invokes the callback with a message named name (line 98).
Invoke(p, name) ==
    /\ subscribed
    /\ cb[p].pc = "idle"
    /\ TotalCalls(NumProducers) < MaxEvents
    /\ cb' = [cb EXCEPT ![p] = [pc |-> "lock", name |-> name, old |-> 0]]
    /\ calls' = [calls EXCEPT ![p] = @ + 1]
    /\ delivered' = IF name \in DOMAIN delivered
                    THEN [delivered EXCEPT ![name] = @ + 1]
                    ELSE delivered
    /\ UNCHANGED <<clock, start_time, stats_mutex, message_counts,
                   last_message_time, rl, rows, warning,
                   life>>

\* An invocation; the instant of delivery is not recorded.
Deliver(p, name) ==
    /\ Invoke(p, name)
    /\ UNCHANGED latest_received

\* An invocation whose instant of delivery (the event's receivedAt) is
\* recorded in the history.
DeliverStamped(p, name) ==
    /\ Invoke(p, name)
    /\ latest_received' = IF name \in DOMAIN latest_received
                          THEN [latest_received EXCEPT ![name] = clock]
                          ELSE latest_received

\* Variant of CallbackLock: the callback runs without taking stats_mutex.
CallbackLockSkipped(p) ==
    /\ cb[p].pc = "lock"
    /\ cb' = [cb EXCEPT ![p].pc = "filter"]
    /\ UNCHANGED <<clock, start_time, stats_mutex, message_counts,
                   last_message_time, rl, rows, warning, calls, delivered,
                   latest_received,
                   life>>

\* Line 99.
CallbackLock(p) ==
    /\ cb[p].pc = "lock"
    /\ lock_guard(p)
    /\ cb' = [cb EXCEPT ![p].pc = "filter"]
    /\ UNCHANGED <<clock, start_time, message_counts, last_message_time, rl,
                   rows, warning, calls, delivered, latest_received,
                   life>>

\* Lines 101-111: the whitelist test; an unmonitored message returns at
\* once, a monitored one has its counter looked up and read.
CallbackFilter(p) ==
    /\ cb[p].pc = "filter"
    /\ IF is_monitored(cb[p].name)
       THEN LET m == MapIndex(message_counts, cb[p].name, 0)
            IN  /\ message_counts' = m
                /\ cb' = [cb EXCEPT ![p].pc = "count", ![p].old = m[cb[p].name]]
                /\ UNCHANGED stats_mutex
       ELSE /\ cb' = [cb EXCEPT ![p] = [pc |-> "idle", name |-> "", old |-> 0]]
            /\ unlock_guard(p)
            /\ UNCHANGED message_counts
    /\ UNCHANGED <<clock, start_time, last_message_time, rl, rows, warning,
                   calls, delivered, latest_received,
                   life>>

\* Variant of CallbackCount: the guard's scope ends with the count.
CallbackCountUnlocks(p) ==
    /\ cb[p].pc = "count"
    /\ message_counts' = StoreCount(message_counts, cb[p].name, cb[p].old)
    /\ cb' = [cb EXCEPT ![p].pc = "time", ![p].old = 0]
    /\ unlock_guard(p)
    /\ UNCHANGED <<clock, start_time, last_message_time, rl,
                   rows, warning, calls, delivered, latest_received,
                   life>>

\* Line 111: the incremented value is stored.
CallbackCount(p) ==
    /\ cb[p].pc = "count"
    /\ message_counts' = StoreCount(message_counts, cb[p].name, cb[p].old)
    /\ cb' = [cb EXCEPT ![p].pc = "time", ![p].old = 0]
    /\ UNCHANGED <<clock, start_time, stats_mutex, last_message_time, rl,
                   rows, warning, calls, delivered, latest_received,
                   life>>

\* Lines 112-114: stamp the time, return and release the mutex.
CallbackTime(p) ==
    /\ cb[p].pc = "time"
    /\ last_message_time' = StampTime(last_message_time, cb[p].name, clock)
    /\ cb' = [cb EXCEPT ![p] = [pc |-> "idle", name |-> "", old |-> 0]]
    /\ unlock_guard(p)
    /\ UNCHANGED <<clock, start_time, message_counts, rl, rows, warning,
                   calls, delivered, latest_received,
                   life>>

---------------------------------------------------------------------------
(* The render loop, lines 118-171, run by the main thread *)

\* Line 119: sleep_for(1 s) returns once at least one second has passed.
RenderWake ==
    /\ main_pc = "monitoring"
    /\ rl.pc = "sleep"
    /\ clock >= rl.wake
    /\ rl' = [rl EXCEPT !.pc = "lock", !.wake = 0]
    /\ UNCHANGED <<clock, start_time, stats_mutex, message_counts,
                   last_message_time, cb, rows, warning, calls, delivered,
                   latest_received,
                   life>>

\* Variant of RenderLock: the tick runs without taking stats_mutex.
RenderLockSkipped ==
    /\ rl.pc = "lock"
    /\ rl' = [rl EXCEPT !.pc = "header"]
    /\ UNCHANGED <<clock, start_time, stats_mutex, message_counts,
                   last_message_time, cb, rows, warning, calls, delivered,
                   latest_received,
                   life>>

\* Line 121.
RenderLock ==
    /\ rl.pc = "lock"
    /\ lock_guard(Renderer)
    /\ rl' = [rl EXCEPT !.pc = "header"]
    /\ UNCHANGED <<clock, start_time, message_counts, last_message_time, cb,
                   rows, warning, calls, delivered, latest_received,
                   life>>

\* Lines 123-136: capture the time, clear the screen, print the header.
RenderHeader ==
    /\ rl.pc = "header"
    /\ rl' = [rl EXCEPT !.pc = "count", !.i = 1, !.current_time = clock,
                        !.elapsed = duration_cast_seconds(clock - start_time)]
    /\ UNCHANGED <<clock, start_time, stats_mutex, message_counts,
                   last_message_time, cb, rows, warning, calls, delivered,
                   latest_received,
                   life>>

\* Lines 139-140: unsigned count = message_counts[msg_name].
RenderCount ==
    /\ rl.pc = "count"
    /\ LET msg_name == monitored_messages[rl.i]
           m == MapIndex(message_counts, msg_name, 0)
       IN  /\ message_counts' = m
           /\ rl' = [rl EXCEPT !.pc = "lastseen", !.count = m[msg_name]]
    /\ UNCHANGED <<clock, start_time, stats_mutex, last_message_time, cb,
                   rows, warning, calls, delivered, latest_received,
                   life>>

\* Lines 142-160: the recency text, then the row is printed.
RenderRow ==
    /\ rl.pc = "lastseen"
    /\ LET msg_name == monitored_messages[rl.i]
       IN  rows' = Append(rows,
                     [msg_name |-> msg_name,
                      count |-> rl.count,
                      rate |-> RateCell(rl.count, rl.elapsed),
                      last_seen |-> LastSeenCell(last_message_time, msg_name,
                                                 rl.current_time)])
    /\ rl' = [rl EXCEPT !.i = @ + 1, !.count = 0,
                        !.pc = IF rl.i < Len(monitored_messages)
                               THEN "count" ELSE "footer"]
    /\ UNCHANGED <<clock, start_time, stats_mutex, message_counts,
                   last_message_time, cb, warning, calls, delivered,
                   latest_received,
                   life>>

\* Lines 162-168: the bottom border and the warning.
RenderFooter ==
    /\ rl.pc = "footer"
    /\ warning' = (DOMAIN message_counts = {})
    /\ rl' = [rl EXCEPT !.pc = "flush"]
    /\ UNCHANGED <<clock, start_time, stats_mutex, message_counts,
                   last_message_time, cb, rows, calls, delivered,
                   latest_received,
                   life>>

\* Lines 170-171 and 119: the tick's output is flushed to the terminal, the
\* scope of the lock and of the iteration's locals ends and the next sleep
\* starts.
\* Variant of RenderFlush: the loop ends after the tick and main runs lines
\* 173-177.
RenderFlushBreak ==
    /\ rl.pc = "flush"
    /\ rows' = <<>>
    /\ warning' = FALSE
    /\ unlock_guard(Renderer)
    /\ rl' = [pc |-> "sleep", wake |-> 0, i |-> 1,
              current_time |-> 0, elapsed |-> 0, count |-> 0]
    /\ subscribed' = FALSE
    /\ console' = console \cup {"stopped"}
    /\ exit_code' = {0}
    /\ main_pc' = "exit"
    /\ UNCHANGED <<clock, start_time, message_counts, last_message_time, cb,
                   calls, delivered, latest_received, argc,
                   connection_result, systems, system, start_wait>>

\* Variant of RenderFlush: the mutex is locked by hand and not released at
\* the end of the iteration.
RenderFlushKeepsMutex ==
    /\ rl.pc = "flush"
    /\ rows' = <<>>
    /\ warning' = FALSE
    /\ rl' = [pc |-> "sleep", wake |-> clock + 1000000, i |-> 1,
              current_time |-> 0, elapsed |-> 0, count |-> 0]
    /\ UNCHANGED <<clock, start_time, stats_mutex, message_counts,
                   last_message_time, cb, calls, delivered, latest_received,
                   life>>

RenderFlush ==
    /\ rl.pc = "flush"
    /\ rows' = <<>>
    /\ warning' = FALSE
    /\ unlock_guard(Renderer)
    /\ rl' = [pc |-> "sleep", wake |-> clock + 1000000, i |-> 1,
              current_time |-> 0, elapsed |-> 0, count |-> 0]
    /\ UNCHANGED <<clock, start_time, message_counts, last_message_time, cb,
                   calls, delivered, latest_received,
                   life>>

---------------------------------------------------------------------------
(* steady_clock *)

\* Time passes once the callback is registered: the clock moves to a later
\* instant, counted from start_time.
Tick ==
    /\ main_pc \in {"announce", "monitoring"}
    /\ \E t \in Instants : start_time + t > clock /\ clock' = start_time + t
    /\ UNCHANGED <<start_time, stats_mutex, message_counts, last_message_time,
                   cb, rl, rows, warning, calls, delivered, latest_received,
                   life>>

---------------------------------------------------------------------------

\* The steps of the callback after its invocation.
CallbackStep ==
    \E p \in Producers :
        \/ CallbackLock(p)
        \/ CallbackFilter(p)
        \/ CallbackCount(p)
        \/ CallbackTime(p)

\* The steps of the render loop.
RenderStep ==
    \/ RenderWake
    \/ RenderLock
    \/ RenderHeader
    \/ RenderCount
    \/ RenderRow
    \/ RenderFooter
    \/ RenderFlush

Next ==
    \/ \E p \in Producers, name \in EventNames : Deliver(p, name)
    \/ CallbackStep
    \/ RenderStep
    \/ Tick

Spec == Init /\ [][Next]_vars

\* The same program with the instant of every delivery kept as history.
NextReceivedAt ==
    \/ \E p \in Producers, name \in EventNames : DeliverStamped(p, name)
    \/ CallbackStep
    \/ RenderStep
    \/ Tick

SpecReceivedAt == Init /\ [][NextReceivedAt]_vars

---------------------------------------------------------------------------
(* The render loop and the callback under a stream of messages that has no  *)
(* end, while time passes second by second.                                 *)

\* The seconds of running time that the model follows after line 86.
MaxSeconds == 2

\* An instant as it stands one second later.  The instants of this
\* specification are counted from the present reading of steady_clock (its
\* epoch is arbitrary and the program uses differences only), so when a
\* second passes every stored instant lies one second further back.
OneSecondOlder(t) == t - 1000000

\* The model still follows the passing of time: fewer than MaxSeconds
\* seconds have passed since start_time was taken (line 86).
TimeLeft == clock - start_time < MaxSeconds * 1000000

\* One second passes.
Elapse ==
    /\ main_pc = "monitoring"
    /\ TimeLeft
    /\ start_time' = OneSecondOlder(start_time)
    /\ last_message_time' =
          [n \in DOMAIN last_message_time |->
              OneSecondOlder(last_message_time[n])]
    /\ rl' = [rl EXCEPT
                !.wake = IF rl.pc = "sleep" THEN OneSecondOlder(@) ELSE @,
                !.current_time =
                    IF rl.pc \in {"count", "lastseen", "footer", "flush"}
                    THEN OneSecondOlder(@) ELSE @]
    /\ UNCHANGED <<clock, stats_mutex, message_counts, cb, rows, warning,
                   calls, delivered, latest_received, life>>

\* The bus invokes the callback with a message whose name is not monitored
\* (line 98).  Such messages leave no trace in the aggregate or in the
\* history, so their stream is without end.
Arrive(p, name) ==
    /\ subscribed
    /\ ~is_monitored(name)
    /\ cb[p].pc = "idle"
    /\ cb' = [cb EXCEPT ![p] = [pc |-> "lock", name |-> name, old |-> 0]]
    /\ UNCHANGED <<clock, start_time, stats_mutex, message_counts,
                   last_message_time, rl, rows, warning, calls, delivered,
                   latest_received, life>>

\* What the scheduler of the threads guarantees: time passes, and a thread
\* whose next step stays possible takes it.  For a thread at a lock_guard
\* that means: it acquires stats_mutex if the mutex stays free.  Deliveries
\* are up to the bus and carry no fairness.
Fairness ==
    /\ WF_vars(Elapse)
    /\ WF_vars(RenderStep)
    /\ \A p \in Producers :
          WF_vars(CallbackLock(p) \/ CallbackFilter(p) \/ CallbackCount(p)
                  \/ CallbackTime(p))

\* The program under an endless stream of messages that are not monitored,
\* mixed with HEARTBEAT messages.
NextFair ==
    \/ \E p \in Producers : Deliver(p, "HEARTBEAT")
    \/ \E p \in Producers : Arrive(p, "heartbeat")
    \/ CallbackStep
    \/ RenderStep
    \/ Elapse

SpecFair == Init /\ [][NextFair]_vars /\ Fairness

---------------------------------------------------------------------------
(* One render tick from a drawn state of the aggregate.  HEARTBEAT was      *)
(* recorded once, between 0 and MaxDeltaMs milliseconds (plus a fraction)   *)
(* before the tick; OPTICAL_FLOW_RAD was recorded exactly one second before *)
(* the tick or never; an earlier tick has run (and left its zero entries in *)
(* message_counts) or not.                                                  *)

\* Fractions of a millisecond, in microseconds.
SubMs == {0, 999}

\* The instant of the tick.
TickNow == (MaxDeltaMs + 1) * 1000 + 1000000

TickInit ==
    \E deltaMs \in 0..MaxDeltaMs, frac \in SubMs, other \in BOOLEAN,
       ticked \in BOOLEAN :
        LET seen == [n \in {"HEARTBEAT"} \cup
                            (IF other THEN {"OPTICAL_FLOW_RAD"} ELSE {})
                       |-> IF n = "HEARTBEAT"
                           THEN TickNow - (deltaMs * 1000 + frac)
                           ELSE TickNow - 1000000]
        IN  /\ LifeAtMonitoring
            /\ clock = TickNow
            /\ start_time = InstantAt[1]
            /\ stats_mutex = {}
            /\ last_message_time = seen
            /\ message_counts =
                  [n \in (IF ticked THEN Monitored ELSE DOMAIN seen)
                     |-> IF n \in DOMAIN seen THEN 1 ELSE 0]
            /\ cb = [p \in Producers |-> [pc |-> "idle", name |-> "", old |-> 0]]
            /\ rl = [pc |-> "sleep",
                     wake |-> IF ticked THEN TickNow ELSE InstantAt[1] + 1000000,
                     i |-> 1, current_time |-> 0, elapsed |-> 0, count |-> 0]
            /\ rows = <<>>
            /\ warning = FALSE
            /\ calls = [p \in Producers |->
                          IF p = 1 THEN Cardinality(DOMAIN seen) ELSE 0]
            /\ delivered = [n \in EventNames \cap Monitored |->
                              IF n \in DOMAIN seen THEN 1 ELSE 0]
            /\ latest_received = [n \in EventNames \cap Monitored |-> -1]

SpecTick == TickInit /\ [][RenderStep]_vars

---------------------------------------------------------------------------
(* One render tick over drawn inputs of the rate computation of lines      *)
(* 123-140: HEARTBEAT has a count of 0..MaxCount and the tick runs          *)
(* 0..MaxElapsedS whole seconds (plus a fraction) after start_time.  The    *)
(* loop sleeps one second before its first capture, so zero seconds is an   *)
(* input of the expression of line 140 that the loop itself never feeds it. *)

\* The largest drawn count and the largest drawn number of whole seconds.
MaxCount == 25
MaxElapsedS == 40

\* Fractions of a second, in microseconds.
SubSecond == {0, 999999}

RateInit ==
    \E count \in 0..MaxCount, elapsedS \in 0..MaxElapsedS, frac \in SubSecond :
        LET seen == IF count > 0 THEN {"HEARTBEAT"} ELSE {}
        IN  /\ LifeAtMonitoring
            /\ start_time = InstantAt[1]
            /\ clock = InstantAt[1] + elapsedS * 1000000 + frac
            /\ stats_mutex = {}
            /\ last_message_time = [n \in seen |-> InstantAt[1]]
            /\ message_counts = [n \in seen |-> count]
            /\ cb = [p \in Producers |-> [pc |-> "idle", name |-> "", old |-> 0]]
            /\ rl = [pc |-> "sleep",
                     wake |-> IF elapsedS = 0 THEN InstantAt[1]
                              ELSE InstantAt[1] + 1000000,
                     i |-> 1, current_time |-> 0, elapsed |-> 0, count |-> 0]
            /\ rows = <<>>
            /\ warning = FALSE
            /\ calls = [p \in Producers |-> IF p = 1 THEN count ELSE 0]
            /\ delivered = [n \in EventNames \cap Monitored |->
                              IF n \in seen THEN count ELSE 0]
            /\ latest_received = [n \in EventNames \cap Monitored |-> -1]

SpecRate == RateInit /\ [][RenderStep]_vars

---------------------------------------------------------------------------
(* The start-up of main, lines 29-116, followed by the render loop.  The    *)
(* state of the monitoring phase keeps the values of its construction until *)
(* lines 83-116 run.                                                        *)

\* The state that lines 83-116 leave alone until main reaches them.
monitor == <<stats_mutex, message_counts, last_message_time, cb, rows,
             warning, calls, delivered, latest_received>>

\* The numbers of command-line words the program is started with.
ArgCounts == {1, 2, 3}

\* Outcomes of add_any_connection (ConnectionResult).
ConnectionResults == {"Success", "ConnectionUrlInvalid", "SocketError"}

\* The times after start_wait, in microseconds, at which the first system
\* may be discovered: at once, during the bounded wait, in its eleventh
\* second, when the bounded wait gives up, and at the end of the grace wait.
DiscoveredAt == {0, 5000000, 10500000, 11000000, 13000000}

\* How long after its duration a sleep_for of the start-up returns, in
\* microseconds: on time, a scheduling delay of Jitter, a whole polling
\* period, or a stall of MaxLateness (the thread was stopped), which alone
\* takes the bounded wait past its limit.
Jitter == 156
MaxLateness == 10900000
Lateness == {0, Jitter, 100000, MaxLateness}

LifeInit ==
    /\ main_pc = "args"
    /\ argc \in ArgCounts
    /\ connection_result = "none"
    /\ systems = 0
    /\ system = 0
    /\ subscribed = FALSE
    /\ exit_code = {}
    /\ start_wait = InstantAt[1]
    /\ console = {}
    /\ clock = InstantAt[1]
    /\ start_time = InstantAt[1]
    /\ stats_mutex = {}
    /\ message_counts = <<>>
    /\ last_message_time = <<>>
    /\ cb = [p \in Producers |-> [pc |-> "idle", name |-> "", old |-> 0]]
    /\ rl = [pc |-> "sleep", wake |-> 0, i |-> 1,
             current_time |-> 0, elapsed |-> 0, count |-> 0]
    /\ rows = <<>>
    /\ warning = FALSE
    /\ calls = [p \in Producers |-> 0]
    /\ delivered = [n \in EventNames \cap Monitored |-> 0]
    /\ latest_received = [n \in EventNames \cap Monitored |-> -1]

\* Lines 31-34: the usage check.
CheckArgs ==
    /\ main_pc = "args"
    /\ IF argc # 2
       THEN /\ console' = console \cup {"usage"}
            /\ exit_code' = {1}
            /\ main_pc' = "exit"
       ELSE /\ main_pc' = "connect"
            /\ UNCHANGED <<console, exit_code>>
    /\ UNCHANGED <<clock, start_time, rl, monitor, argc, connection_result,
                   systems, system, subscribed, start_wait>>

\* Variant of AddAnyConnection: the result is not tested.
AddAnyConnectionUnchecked(result) ==
    /\ main_pc = "connect"
    /\ connection_result' = result
    /\ console' = console \cup {"waiting"}
    /\ start_wait' = clock
    /\ main_pc' = "wait_check"
    /\ UNCHANGED <<clock, start_time, rl, monitor, argc, systems, system,
                   subscribed, exit_code>>

\* Lines 39-48: add_any_connection returns result; a failure is reported
\* and main returns 1, a success prints line 46 and captures start_wait.
AddAnyConnection(result) ==
    /\ main_pc = "connect"
    /\ connection_result' = result
    /\ IF result # "Success"
       THEN /\ console' = console \cup {"connection_failed"}
            /\ exit_code' = {1}
            /\ main_pc' = "exit"
            /\ UNCHANGED start_wait
       ELSE /\ console' = console \cup {"waiting"}
            /\ start_wait' = clock
            /\ main_pc' = "wait_check"
            /\ UNCHANGED exit_code
    /\ UNCHANGED <<clock, start_time, rl, monitor, argc, systems, system,
                   subscribed>>

\* The connection's receive thread discovers the first system: from then on
\* mavsdk.systems().size() is 1.
SystemDiscovered ==
    /\ connection_result = "Success"
    /\ main_pc \in {"wait_check", "wait_sleep", "select", "grace_sleep",
                     "grace_check"}
    /\ systems = 0
    /\ clock - start_wait \in DiscoveredAt
    /\ systems' = 1
    /\ UNCHANGED <<clock, start_time, rl, monitor, main_pc, argc,
                   connection_result, system, subscribed, exit_code,
                   start_wait, console>>

\* Line 49: the loop condition mavsdk.systems().size() == 0.
WaitCheck ==
    /\ main_pc = "wait_check"
    /\ main_pc' = IF systems = 0 THEN "wait_sleep" ELSE "select"
    /\ UNCHANGED <<clock, start_time, rl, monitor, argc, connection_result,
                   systems, system, subscribed, exit_code, start_wait,
                   console>>

\* Variant of WaitSleep: the timeout of the bounded wait ends the program.
WaitSleepFatal(late) ==
    /\ main_pc = "wait_sleep"
    /\ clock' = clock + 100000 + late
    /\ LET elapsed == duration_cast_seconds(clock' - start_wait)
       IN  IF elapsed > 10
           THEN /\ console' = console \cup {"note_no_system"}
                /\ exit_code' = {1}
                /\ main_pc' = "exit"
           ELSE /\ main_pc' = "wait_check"
                /\ UNCHANGED <<console, exit_code>>
    /\ UNCHANGED <<start_time, rl, monitor, argc, connection_result, systems,
                   system, subscribed, start_wait>>

\* Lines 50-57: sleep_for(100 ms), which returns late microseconds after
\* the 100 ms, then the elapsed whole seconds since start_wait; past 10 the
\* note of lines 54-55 is printed and the loop left.
WaitSleep(late) ==
    /\ main_pc = "wait_sleep"
    /\ clock' = clock + 100000 + late
    /\ LET elapsed == duration_cast_seconds(clock' - start_wait)
       IN  IF elapsed > 10
           THEN /\ console' = console \cup {"note_no_system"}
                /\ main_pc' = "select"
           ELSE /\ main_pc' = "wait_check"
                /\ UNCHANGED console
    /\ UNCHANGED <<start_time, rl, monitor, argc, connection_result, systems,
                   system, subscribed, exit_code, start_wait>>

\* Lines 60-68: the first system is taken if there is one; otherwise line 68
\* is printed and the grace wait begins.
Select ==
    /\ main_pc = "select"
    /\ IF systems > 0
       THEN /\ system' = 1
            /\ console' = console \cup {"connected"}
            /\ main_pc' = "subscribe"
       ELSE /\ console' = console \cup {"listening"}
            /\ main_pc' = "grace_sleep"
            /\ UNCHANGED system
    /\ UNCHANGED <<clock, start_time, rl, monitor, argc, connection_result,
                   systems, subscribed, exit_code, start_wait>>

\* Line 69: sleep_for(2 s), which returns late microseconds after the 2 s.
GraceSleep(late) ==
    /\ main_pc = "grace_sleep"
    /\ clock' = clock + 2000000 + late
    /\ main_pc' = "grace_check"
    /\ UNCHANGED <<start_time, rl, monitor, argc, connection_result, systems,
                   system, subscribed, exit_code, start_wait, console>>

\* Lines 70-76: the first system is taken if there is one now; otherwise
\* the warning of line 73 is printed and main returns 1.
GraceCheck ==
    /\ main_pc = "grace_check"
    /\ IF systems > 0
       THEN /\ system' = 1
            /\ main_pc' = "subscribe"
            /\ UNCHANGED <<console, exit_code>>
       ELSE /\ console' = console \cup {"warning_no_system"}
            /\ exit_code' = {1}
            /\ main_pc' = "exit"
            /\ UNCHANGED system
    /\ UNCHANGED <<clock, start_time, rl, monitor, argc, connection_result,
                   systems, subscribed, start_wait>>

\* Lines 79-97: MavlinkDirect and the empty aggregate are constructed,
\* start_time is captured and the callback is registered: from here on it
\* can be invoked.
Subscribe ==
    /\ main_pc = "subscribe"
    /\ start_time' = clock
    /\ subscribed' = TRUE
    /\ main_pc' = "announce"
    /\ UNCHANGED <<clock, rl, monitor, argc, connection_result, systems,
                   system, exit_code, start_wait, console>>

\* Lines 116-119: line 116 is printed and the render loop begins its first
\* sleep.
Announce ==
    /\ main_pc = "announce"
    /\ console' = console \cup {"monitoring"}
    /\ rl' = [rl EXCEPT !.wake = clock + 1000000]
    /\ main_pc' = "monitoring"
    /\ UNCHANGED <<clock, start_time, monitor, argc, connection_result,
                   systems, system, subscribed, exit_code, start_wait>>

\* The steps of main before the render loop.
MainStep ==
    \/ CheckArgs
    \/ \E result \in ConnectionResults : AddAnyConnection(result)
    \/ WaitCheck
    \/ \E late \in Lateness : WaitSleep(late)
    \/ Select
    \/ \E late \in Lateness : GraceSleep(late)
    \/ GraceCheck
    \/ Subscribe
    \/ Announce

\* The whole program; the messages delivered while it monitors are HEARTBEAT.
NextLife ==
    \/ MainStep
    \/ SystemDiscovered
    \/ \E p \in Producers : Deliver(p, "HEARTBEAT")
    \/ CallbackStep
    \/ RenderStep
    \/ Tick

SpecLife == LifeInit /\ [][NextLife]_vars

---------------------------------------------------------------------------
(* Vocabulary of the properties *)

\* No callback invocation is in progress.
Quiescent == \A p \in Producers : cb[p].pc = "idle"

\* The stored count of a name; a name without an entry counts as zero.
CountOf(n) == IF n \in DOMAIN message_counts THEN message_counts[n] ELSE 0

\* The number of callback invocations with a monitored name.
DeliveredOf(n) == IF n \in DOMAIN delivered THEN delivered[n] ELSE 0

\* The render loop is inside a tick, after the time capture of line 123.
InTick == rl.pc \in {"count", "lastseen", "footer", "flush"}

\* The tick has written all its rows and its warning decision is taken.
TickComplete == rl.pc = "flush"

\* The row of the tick in progress for a name (rows are in whitelist order).
RowOf(n) == CHOOSE k \in 1..Len(rows) : rows[k].msg_name = n

---------------------------------------------------------------------------
(* C1..C10 *)

\* C1: once every delivered event has been processed (no callback invocation
\* in progress), whatever render ticks ran in between, the stored count of
\* every monitored name equals the number of delivered events with that name.
C1_CountEqualsDelivered ==
    Quiescent => \A n \in Monitored : CountOf(n) = DeliveredOf(n)

\* Three HEARTBEAT events were delivered and processed, and a render tick
\* then printed the total 3.
C1_Witness ==
    /\ Quiescent
    /\ delivered["HEARTBEAT"] = 3
    /\ TickComplete
    /\ rows[RowOf("HEARTBEAT")].count = 3

\* C2: when N delivery contexts have each invoked the callback M times, all
\* for the same monitored name, and all invocations have returned, the count
\* of that name is N x M, for every N and M the bounds allow.
C2_NoLostUpdate ==
    \A n \in DOMAIN delivered : \A M \in 1..MaxEvents :
        LET Active == {p \in Producers : calls[p] > 0}
        IN  (/\ Active # {}
             /\ \A p \in Active : calls[p] = M
             /\ delivered[n] = Cardinality(Active) * M
             /\ Quiescent)
            => /\ n \in DOMAIN message_counts
               /\ message_counts[n] = Cardinality(Active) * M

\* Every delivery context has invoked the callback once, all for HEARTBEAT,
\* all invocations have returned and the count is N; a render tick ran in
\* between (the render loop has slept again).
C2_Witness ==
    /\ \A p \in Producers : calls[p] = 1
    /\ delivered["HEARTBEAT"] = NumProducers
    /\ Quiescent
    /\ CountOf("HEARTBEAT") = NumProducers
    /\ rl.pc = "sleep"
    /\ rl.wake > start_time + 1000000

\* C3: a callback invocation for a name that is not in the whitelist changes
\* neither message_counts nor last_message_time, and no unmonitored name is
\* ever a key of either map.
C3_UnmonitoredDropped ==
    /\ [](/\ DOMAIN message_counts \subseteq Monitored
          /\ DOMAIN last_message_time \subseteq Monitored)
    /\ [][\A p \in Producers :
            (/\ cb'[p] # cb[p]
             /\ (IF cb[p].pc = "idle" THEN cb'[p].name ELSE cb[p].name)
                    \notin Monitored)
            => UNCHANGED <<message_counts, last_message_time>>]_vars

\* Invocations were made and have all returned, none of them for a monitored
\* name, and the maps hold nothing.
C3_Witness ==
    /\ Quiescent
    /\ TotalCalls(NumProducers) = MaxEvents
    /\ \A n \in DOMAIN delivered : delivered[n] = 0
    /\ DOMAIN message_counts = {}
    /\ DOMAIN last_message_time = {}

\* C4: during a tick no callback update takes effect: the count read at line
\* 139 is still the stored count when lastSeen is read, every row written so
\* far agrees with the aggregate as it is now (so all rows of the tick show
\* one state of the aggregate), and a row has count > 0 exactly when it has a
\* lastSeen.
C4_TickReadsOneState ==
    /\ rl.pc = "lastseen" => rl.count = CountOf(monitored_messages[rl.i])
    /\ InTick =>
         \A k \in 1..Len(rows) :
            /\ rows[k].count = CountOf(rows[k].msg_name)
            /\ (rows[k].last_seen # "Never")
                  <=> (rows[k].msg_name \in DOMAIN last_message_time)
            /\ (rows[k].count > 0) <=> (rows[k].last_seen # "Never")

\* A tick wrote a row with a count and a row without one while a callback
\* invocation for a monitored name was waiting for the mutex.
C4_Witness ==
    /\ TickComplete
    /\ rows[RowOf("HEARTBEAT")].count > 0
    /\ rows[RowOf("OPTICAL_FLOW_RAD")].last_seen = "Never"
    /\ \E p \in Producers : cb[p].pc = "lock" /\ cb[p].name = "OPTICAL_FLOW_RAD"

\* C5: a monitored name is a key of message_counts and of last_message_time
\* only if an event with that name was delivered, and is a key of both once
\* such an event has been processed.
C5_EntryIffRecorded ==
    \A n \in Monitored :
        /\ n \in DOMAIN message_counts => DeliveredOf(n) > 0
        /\ n \in DOMAIN last_message_time => DeliveredOf(n) > 0
        /\ (Quiescent /\ DeliveredOf(n) > 0) =>
              (n \in DOMAIN message_counts /\ n \in DOMAIN last_message_time)

\* C6: a tick that completes while no monitored message has been delivered
\* since the start has written the warning.
C6_WarningWhenNothingReceived ==
    (TickComplete /\ \A n \in Monitored : DeliveredOf(n) = 0) => warning

\* C7: no callback invocation waits for stats_mutex while the render loop is
\* formatting and writing the table.
C7_OutputOutsideLock ==
    ~(InTick /\ \E p \in Producers : cb[p].pc = "lock")

\* C8: in every step, for every monitored name, the count does not decrease
\* and lastSeen, once set, stays set and does not move back.
C8_Monotonic ==
    [][\A n \in Monitored :
         /\ CountOf(n)' >= CountOf(n)
         /\ n \in DOMAIN last_message_time =>
              /\ n \in DOMAIN last_message_time'
              /\ last_message_time'[n] >= last_message_time[n]]_vars

\* A name was recorded twice, the second time at a later instant.
C8_Witness ==
    /\ CountOf("HEARTBEAT") = 2
    /\ Quiescent
    /\ "HEARTBEAT" \in DOMAIN last_message_time
    /\ last_message_time["HEARTBEAT"] > start_time

\* C9 as claimed: once a batch is processed, lastSeen of a name equals the
\* instant at which the latest event of that name was delivered.
C9_LastSeenIsReceivedAt ==
    \A n \in DOMAIN delivered :
        (Quiescent /\ delivered[n] > 0) =>
            /\ n \in DOMAIN last_message_time
            /\ last_message_time[n] = latest_received[n]

\* C9 as amended: once a batch is processed, lastSeen of a name is a clock
\* reading taken by the callback itself, not earlier than the instant at which
\* the latest event of that name was delivered and not later than now.
C9_LastSeenNotBeforeReceivedAt ==
    \A n \in DOMAIN delivered :
        (Quiescent /\ delivered[n] > 0) =>
            /\ n \in DOMAIN last_message_time
            /\ latest_received[n] <= last_message_time[n]
            /\ last_message_time[n] <= clock

\* Two events of a name were processed, the later one stamped after the
\* instant of its delivery.
C9_Witness ==
    /\ Quiescent
    /\ delivered["HEARTBEAT"] = 2
    /\ "HEARTBEAT" \in DOMAIN last_message_time
    /\ latest_received["HEARTBEAT"] > start_time
    /\ last_message_time["HEARTBEAT"] > latest_received["HEARTBEAT"]

\* C10: in every row of a tick the recency text is "Never" when no event of
\* the name was recorded; otherwise, with deltaMs the whole milliseconds from
\* lastSeen to the tick's captured time, it is "<deltaMs> ms ago" when
\* deltaMs < 1000 and "<deltaMs div 1000> s ago" when deltaMs >= 1000.
C10_RecencyText ==
    InTick =>
      \A k \in 1..Len(rows) :
         LET n == rows[k].msg_name
         IN  IF CountOf(n) = 0
             THEN rows[k].last_seen = "Never"
             ELSE LET deltaMs == (rl.current_time - last_message_time[n])
                                    \div 1000
                  IN  rows[k].last_seen =
                        IF deltaMs < 1000
                        THEN ToString(deltaMs) \o " ms ago"
                        ELSE ToString(deltaMs \div 1000) \o " s ago"

\* One tick shows the three cases: a name never seen, a name seen 999 ms
\* (and a fraction) before the tick and a name seen 1000 ms before it.
C10_Witness ==
    /\ TickComplete
    /\ rows[RowOf("OPTICAL_FLOW")].last_seen = "Never"
    /\ rows[RowOf("HEARTBEAT")].last_seen = "999 ms ago"
    /\ rl.current_time - last_message_time["HEARTBEAT"] = 999999
    /\ rows[RowOf("OPTICAL_FLOW_RAD")].last_seen = "1 s ago"
    /\ rl.current_time - last_message_time["OPTICAL_FLOW_RAD"] = 1000000

\* C11: at every render tick the elapsed seconds are the whole seconds
\* between start_time and the captured time; the rate cell of every row is
\* 0.00 when that is zero and otherwise the quotient count / elapsed written
\* with two decimals, the hundredth nearest to the quotient (a count of 25
\* over 10 seconds reads 2.50).
C11_RateCell ==
    InTick =>
        /\ rl.elapsed * 1000000 <= rl.current_time - start_time
        /\ rl.current_time - start_time < (rl.elapsed + 1) * 1000000
        /\ \A k \in 1..Len(rows) :
              LET c == rows[k].count
                  e == rl.elapsed
                  TwoDecimals(h) ==
                      ToString(h \div 100) \o "." \o
                      (IF h % 100 < 10 THEN "0" ELSE "") \o ToString(h % 100)
                  Off(h) == IF 100 * c >= h * e
                            THEN 100 * c - h * e ELSE h * e - 100 * c
              IN  /\ e = 0 => rows[k].rate = "0.00"
                  /\ e > 0 => \E h \in 0..(100 * c) :
                                /\ 2 * Off(h) <= e
                                /\ rows[k].rate = TwoDecimals(h)
                  /\ (c = 25 /\ e = 10) => rows[k].rate = "2.50"

\* A tick ten seconds after the start has written the row of a name recorded
\* 25 times.
C11_Witness ==
    /\ TickComplete
    /\ rl.elapsed = 10
    /\ rows[RowOf("HEARTBEAT")].count = 25
    /\ rows[RowOf("HEARTBEAT")].rate = "2.50"

---------------------------------------------------------------------------
(* C17, C19, C20: the aggregate under its mutex *)

\* C17: a callback between its lookup and its time stamp, and the render
\* loop between its time capture and its flush (the places where
\* message_counts and last_message_time are read or written), own
\* stats_mutex; the mutex has one owner at most, so the callback and the
\* render loop are never in their critical sections together, nor two
\* callbacks.
C17_AccessUnderMutex ==
    /\ Cardinality(stats_mutex) <= 1
    /\ \A p \in Producers :
          cb[p].pc \in {"filter", "count", "time"} => p \in stats_mutex
    /\ rl.pc \in {"header", "count", "lastseen", "footer", "flush"} =>
          Renderer \in stats_mutex
    /\ \A p \in Producers :
          ~(/\ cb[p].pc \in {"filter", "count", "time"}
            /\ rl.pc \in {"header", "count", "lastseen", "footer", "flush"})

\* A callback is about to store a count while the render loop waits for the
\* mutex.
C17_Witness ==
    /\ rl.pc = "lock"
    /\ \E p \in Producers : cb[p].pc = "count" /\ stats_mutex = {p}

\* C19: the rows a tick has written are the whitelist names in whitelist
\* order, one row each, and a finished tick has all four; the total of a row
\* is the stored count of its name, 0 for a name never seen.
C19_RowsInWhitelistOrder ==
    LET order == <<"OPTICAL_FLOW", "OPTICAL_FLOW_RAD", "DISTANCE_SENSOR",
                   "HEARTBEAT">>
    IN  /\ Len(rows) <= 4
        /\ \A k \in 1..Len(rows) :
              /\ rows[k].msg_name = order[k]
              /\ rows[k].count = CountOf(order[k])
              /\ order[k] \notin DOMAIN last_message_time => rows[k].count = 0
        /\ rl.pc \in {"footer", "flush"} => Len(rows) = 4
        /\ rl.pc \in {"count", "lastseen"} => Len(rows) = rl.i - 1

\* A tick after the first one is written; HEARTBEAT, the last name of the
\* whitelist, was received before OPTICAL_FLOW_RAD.
C19_Witness ==
    /\ TickComplete
    /\ rl.elapsed >= 2
    /\ CountOf("HEARTBEAT") = 1
    /\ CountOf("OPTICAL_FLOW_RAD") = 1
    /\ DOMAIN last_message_time = {"HEARTBEAT", "OPTICAL_FLOW_RAD"}
    /\ last_message_time["HEARTBEAT"] < last_message_time["OPTICAL_FLOW_RAD"]

\* C20: during a tick no stored lastSeen is later than the time the tick
\* captured, so no recency delta is negative.
C20_LastSeenNotAfterTick ==
    InTick =>
        \A n \in DOMAIN last_message_time :
            /\ last_message_time[n] <= rl.current_time
            /\ duration_cast_milliseconds(rl.current_time -
                                          last_message_time[n]) >= 0

\* A tick runs at the very instant of the latest stamp while a later
\* callback waits for the mutex.
C20_Witness ==
    /\ InTick
    /\ \E n \in DOMAIN last_message_time :
          last_message_time[n] = rl.current_time
    /\ \E p \in Producers : cb[p].pc = "lock"

---------------------------------------------------------------------------
(* C18: progress under fair scheduling *)

\* The render loop is in the sleep of line 119 and the model's time is over
\* before the sleep is.
SleepsPastEnd == rl.pc = "sleep" /\ rl.wake > clock /\ ~TimeLeft

\* The render loop completes a tick again and again, for as long as the
\* model follows time: it never stays short of a completed tick, whatever
\* arrives in the meantime.
TicksRecur == []<>(TickComplete \/ SleepsPastEnd)

\* Every callback invocation acquires stats_mutex and returns: a delivery
\* context is between two invocations again and again.  (An invocation begins
\* at line 99, where only acquiring the mutex lets it go on, and is over
\* when the callback has returned.)
CallbacksReturn ==
    \A p \in Producers : []<>(cb[p].pc = "idle")

\* Every recorded event is in the total of the next tick that completes: a
\* completed tick shows the count as it stands.
CountsShown ==
    [](TickComplete =>
          rows[RowOf("HEARTBEAT")].count = CountOf("HEARTBEAT"))

\* A thread that finds stats_mutex free again and again acquires it: the
\* mutex gives every waiter its turn (std::mutex alone does not promise it).
MutexGrantsTurns ==
    /\ SF_vars(RenderLock)
    /\ \A p \in Producers : SF_vars(CallbackLock(p))

---------------------------------------------------------------------------
(* C12..C16: the start-up *)

\* The phase of the session (spec 4.5) that main is in.
Phase ==
    CASE main_pc \in {"args", "connect"} -> "Connecting"
      [] main_pc \in {"wait_check", "wait_sleep", "select", "grace_sleep",
                      "grace_check", "subscribe"} -> "WaitingForSystem"
      [] main_pc \in {"announce", "monitoring"} -> "Monitoring"
      [] OTHER -> "Exited"

\* The render loop has started: it has left its first sleep or is to wake.
LoopStarted == rl.pc # "sleep" \/ rl.wake # 0

\* C12: the phases follow each other only in the order Connecting,
\* WaitingForSystem, Monitoring (or end the program); the callback is
\* registered and the render loop runs only when the connection succeeded
\* and the wait for a system is over; after a failed connection the program
\* has ended with status 1 and has never waited, subscribed or rendered.
C12_PhaseOrder ==
    /\ [][Phase' = Phase \/ <<Phase, Phase'>> \in
             {<<"Connecting", "WaitingForSystem">>,
              <<"WaitingForSystem", "Monitoring">>,
              <<"Connecting", "Exited">>,
              <<"WaitingForSystem", "Exited">>}]_vars
    /\ []((subscribed \/ LoopStarted \/ calls # [p \in Producers |-> 0]) =>
             /\ connection_result = "Success"
             /\ Phase = "Monitoring"
             /\ system # 0)
    /\ [](LoopStarted => subscribed /\ main_pc = "monitoring")
    /\ [](connection_result \notin {"none", "Success"} =>
             /\ Phase = "Exited"
             /\ exit_code = {1}
             /\ console = {"connection_failed"}
             /\ ~subscribed
             /\ ~LoopStarted)

\* main monitors after a successful connection and a tick is written.
C12_Witness ==
    /\ Phase = "Monitoring"
    /\ connection_result = "Success"
    /\ "waiting" \in console
    /\ subscribed
    /\ TickComplete

\* C13: after a successful connection main returns (with status 1, not
\* subscribed) only from the test at the end of the grace wait and only if
\* no system is known then; the timeout of the bounded wait alone never ends
\* the program; once a system is known the program does not fail, and it
\* monitors with the first system.
C13_FailsOnlyAfterGrace ==
    /\ [][(connection_result = "Success" /\ main_pc # "exit" /\
            main_pc' = "exit") =>
             /\ main_pc = "grace_check"
             /\ systems = 0
             /\ exit_code' = {1}
             /\ ~subscribed']_vars
    /\ [][(main_pc = "grace_check" /\ main_pc' # main_pc) =>
             IF systems = 0 THEN main_pc' = "exit"
             ELSE main_pc' = "subscribe" /\ system' = 1]_vars
    /\ [][(main_pc = "wait_sleep" /\ main_pc' # main_pc) =>
             main_pc' \in {"wait_check", "select"} /\ exit_code' = {}]_vars
    /\ [](systems > 0 => exit_code = {})
    /\ [](Phase = "Monitoring" => systems > 0 /\ system = 1)

\* The bounded wait timed out, the grace wait found a system and main
\* monitors with it.
C13_Witness ==
    /\ Phase = "Monitoring"
    /\ {"note_no_system", "listening"} \subseteq console
    /\ system = 1
    /\ subscribed

\* C14: once main is in the render loop it stays there: it never returns
\* (no status 0 in any execution), never runs the unsubscribe of line 173,
\* and the callback stays registered.
C14_LoopNeverExits ==
    /\ [](0 \notin exit_code /\ "stopped" \notin console)
    /\ [](Phase = "Monitoring" => subscribed /\ exit_code = {})
    /\ [][Phase = "Monitoring" =>
             /\ Phase' = "Monitoring"
             /\ subscribed'
             /\ exit_code' = {}]_vars

\* The loop has completed a tick and written the rows of its second one.
C14_Witness ==
    /\ Phase = "Monitoring"
    /\ subscribed
    /\ TickComplete
    /\ rl.elapsed >= 2

\* C15: the bounded wait gives up at the 10-second bound: the loop condition
\* of line 49 is not evaluated again once more than 10 seconds have passed
\* since start_wait.
C15_NoPollAfterBound ==
    [][(main_pc = "wait_check" /\ main_pc' # main_pc) =>
          clock - start_wait <= 10000000]_vars

\* C16: when the grace wait also finds no system, the program prints its
\* warning and goes on to monitor: it has not returned.
C16_WarningThenMonitoring ==
    "warning_no_system" \in console => exit_code = {}

====
